---- MODULE Spec2Model ----
(***************************************************************************)
(* OrderBookMonitor (src/main.py): the order book kept from depth deltas,  *)
(* the metrics derived from it, and the 1m / 5m / 15m histories.           *)
(*                                                                         *)
(* Python floats are modelled as exact rationals <<numerator, denominator>>*)
(* (denominator > 0, lowest terms); prices and quantities of the book are  *)
(* the integers their strings parse to.                                    *)
(***************************************************************************)
EXTENDS Integers, Sequences, FiniteSets

VARIABLES
    current_orderbook,    \* [bids, asks]: price -> quantity        (main.py:31)
    current_metrics,      \* bid_volume, ask_volume, imbalance, current_price (main.py:37)
    history,              \* "1m" / "5m" / "15m" -> time + three lists (main.py:45)
    current_minute_data,  \* the buffer of the minute being accumulated (main.py:67)
    message,              \* the message websocket.recv() returned, not yet processed
    current_time,         \* the last reading of datetime.now()     (main.py:215)
    pc,                   \* position in the receive loop of connect_to_binance
    delivered,            \* number of messages the transport has delivered
    minutes,              \* the <<hour, minute>> of every reading of datetime.now()
    websocket             \* the connection of ws_connections[symbol] (main.py:337):
                          \* id = how many connections were made, open = not yet closed

vars == <<current_orderbook, current_metrics, history, current_minute_data,
          message, current_time, pc, delivered, minutes, websocket>>

----------------------------------------------------------------------------
(* Bounds of the model *)

\* entries (bids and asks together) of one delta
MaxEntries == 2
\* deltas delivered in a run of Spec
MaxDeltas == 2
\* deltas delivered in a run of SpecHist
MaxHistDeltas == 5
\* deltas delivered in a run of SpecCap
MaxCapDeltas == 6
\* deltas delivered in a run of SpecConn
MaxConnDeltas == 3
\* deltas delivered in a run of SpecLarge
MaxLargeDeltas == 4
\* deltas delivered in a run of SpecAccum
MaxAccumDeltas == 7
\* deltas delivered in a run of SpecRound
MaxRoundDeltas == 4
\* significant bits of a float: CPython's double has 53, the model rounds the
\* same way (to nearest, ties to even) at a precision integers can express
MantissaBits == 12

----------------------------------------------------------------------------
(* Float arithmetic, exact *)

Abs(n) == IF n < 0 THEN -n ELSE n

RECURSIVE GCD(_, _)
GCD(a, b) == IF b = 0 THEN a ELSE GCD(b, a % b)

Rat(n, d) ==
    LET g == GCD(Abs(n), Abs(d))
        s == IF d < 0 THEN -1 ELSE 1
    IN  <<(s * n) \div g, (s * d) \div g>>

RInt(n) == <<n, 1>>
Zero == RInt(0)
RAdd(x, y) == Rat(x[1] * y[2] + y[1] * x[2], x[2] * y[2])
RSub(x, y) == Rat(x[1] * y[2] - y[1] * x[2], x[2] * y[2])
RMul(x, y) == Rat(x[1] * y[1], x[2] * y[2])
RDiv(x, y) == Rat(x[1] * y[2], x[2] * y[1])
RLess(x, y) == x[1] * y[2] < y[1] * x[2]
RLeq(x, y) == x[1] * y[2] <= y[1] * x[2]

\* the e with 2^e <= a/d < 2^(e+1), for positive a and d
RECURSIVE Exponent(_, _)
Exponent(a, d) ==
    IF a < d THEN Exponent(2 * a, d) - 1
    ELSE IF a >= 2 * d THEN Exponent(a, 2 * d) + 1
    ELSE 0

\* num/den rounded to the nearest integer, a tie to the even one
RoundHalfEven(num, den) ==
    LET f == num \div den
        r == num % den
    IN  IF 2 * r < den THEN f
        ELSE IF 2 * r > den THEN f + 1
        ELSE IF f % 2 = 0 THEN f ELSE f + 1

\* the float nearest to x: the result of a float operation whose exact
\* value is x, a number of MantissaBits significant bits
fl(x) ==
    IF x[1] = 0 THEN Zero
    ELSE LET a == Abs(x[1])
             shift == MantissaBits - 1 - Exponent(a, x[2])
             m == IF shift >= 0
                  THEN RoundHalfEven(a * 2^shift, x[2])
                  ELSE RoundHalfEven(a, x[2] * 2^(-shift))
             sign == IF x[1] < 0 THEN -1 ELSE 1
         IN  IF shift >= 0 THEN Rat(sign * m, 2^shift)
             ELSE RInt(sign * m * 2^(-shift))

\* sum(list) as the builtin computes it on floats: one rounded addition
\* per element, from the left
FSum(s) ==
    LET acc[i \in 0..Len(s)] ==
            IF i = 0 THEN Zero
            ELSE LET partial == acc[i - 1]
                 IN  IF partial = Zero THEN fl(s[i]) ELSE fl(RAdd(partial, s[i]))
    IN  acc[Len(s)]

\* sum(list) of floats; the arithmetic is exact, so the sum is taken by
\* halves, which keeps the evaluation shallow on long lists
RECURSIVE RSum(_)
RSum(s) ==
    IF s = <<>> THEN Zero
    ELSE IF Len(s) = 1 THEN RAdd(s[1], Zero)
    ELSE LET half == Len(s) \div 2 IN
         RAdd(RSum(SubSeq(s, 1, half)), RSum(SubSeq(s, half + 1, Len(s))))

\* list[-1] of a non-empty list
Last(s) == s[Len(s)]

\* list[-n:]
LastN(s, n) == IF Len(s) <= n THEN s ELSE SubSeq(s, Len(s) - n + 1, Len(s))

----------------------------------------------------------------------------
(* float(str): the strings of the feed and what they parse to.  A string   *)
(* outside the table makes float() raise ValueError.                       *)

\* the decimal strings of 1 .. 25, each at the index it parses to
NumberStrings ==
    <<"1", "2", "3", "4", "5", "6", "7", "8", "9", "10", "11", "12", "13", "14", "15",
      "16", "17", "18", "19", "20", "21", "22", "23", "24", "25">>

FloatTable ==
    [s \in {"-1", "0", "41008"} \cup {NumberStrings[i] : i \in 1..Len(NumberStrings)} |->
        IF s = "-1" THEN -1
        ELSE IF s = "0" THEN 0
        ELSE IF s = "41008" THEN 41008
        ELSE CHOOSE i \in 1..Len(NumberStrings) : NumberStrings[i] = s]

Parses(s) == s \in DOMAIN FloatTable
float(s) == FloatTable[s]

----------------------------------------------------------------------------
(* _update_orderbook *)

\* ApplyEntry with a zero quantity taken as "no change" instead of a removal
ApplyEntryIgnoresZero(levels, price_float, qty_float) ==
    IF qty_float > 0
    THEN [p \in DOMAIN levels \cup {price_float} |->
            IF p = price_float THEN qty_float ELSE levels[p]]
    ELSE IF qty_float < 0
         THEN [p \in DOMAIN levels \ {price_float} |-> levels[p]]
         ELSE levels

\* ApplyEntry adding the quantity to the one already at the price
ApplyEntryAdds(levels, price_float, qty_float) ==
    IF qty_float > 0
    THEN [p \in DOMAIN levels \cup {price_float} |->
            IF p = price_float
            THEN (IF p \in DOMAIN levels THEN levels[p] + qty_float ELSE qty_float)
            ELSE levels[p]]
    ELSE [p \in DOMAIN levels \ {price_float} |-> levels[p]]

\* ApplyEntry with the test "qty_float >= 0"
ApplyEntryStoresZero(levels, price_float, qty_float) ==
    IF qty_float >= 0
    THEN [p \in DOMAIN levels \cup {price_float} |->
            IF p = price_float THEN qty_float ELSE levels[p]]
    ELSE [p \in DOMAIN levels \ {price_float} |-> levels[p]]

\* the body of one loop iteration after both float() calls succeeded
ApplyEntry(levels, price_float, qty_float) ==
    IF qty_float > 0
    THEN [p \in DOMAIN levels \cup {price_float} |->
            IF p = price_float THEN qty_float ELSE levels[p]]
    ELSE [p \in DOMAIN levels \ {price_float} |-> levels[p]]

\* one "for price, qty in ..." loop: stops at the first entry float() rejects
RECURSIVE ApplySide(_, _)
ApplySide(levels, entries) ==
    IF entries = <<>> THEN [levels |-> levels, raised |-> FALSE]
    ELSE LET e == Head(entries) IN
         IF ~Parses(e[1]) \/ ~Parses(e[2])
         THEN [levels |-> levels, raised |-> TRUE]
         ELSE ApplySide(ApplyEntry(levels, float(e[1]), float(e[2])), Tail(entries))

\* the whole method: one try block around both loops, the except only logs
_update_orderbook(book, msg) ==
    IF "b" \notin DOMAIN msg THEN book
    ELSE LET rb == ApplySide(book.bids, msg.b) IN
         IF rb.raised \/ "a" \notin DOMAIN msg
         THEN [bids |-> rb.levels, asks |-> book.asks]
         ELSE [bids |-> rb.levels, asks |-> ApplySide(book.asks, msg.a).levels]

----------------------------------------------------------------------------
(* _calculate_metrics *)

\* levels considered by _calculate_metrics
TopDepth == 10

Max(S) == CHOOSE x \in S : \A y \in S : y <= x
Min(S) == CHOOSE x \in S : \A y \in S : x <= y

\* sorted(bids.items(), reverse=True)[:n]: the prices of the n highest levels
TopBids(levels, n) == {p \in DOMAIN levels : Cardinality({q \in DOMAIN levels : q > p}) < n}
\* sorted(asks.items())[:n]: the prices of the n lowest levels
TopAsks(levels, n) == {p \in DOMAIN levels : Cardinality({q \in DOMAIN levels : q < p}) < n}

\* sum(qty * current_price for _, qty in top)
RECURSIVE Notional(_, _, _)
Notional(levels, prices, current_price) ==
    IF prices = {} THEN Zero
    ELSE LET p == CHOOSE x \in prices : TRUE IN
         RAdd(RMul(RInt(levels[p]), current_price),
              Notional(levels, prices \ {p}, current_price))

Imbalance(bid_volume, ask_volume) ==
    LET total_volume == RAdd(bid_volume, ask_volume) IN
    IF RLess(Zero, total_volume)
    THEN RMul(RDiv(RSub(bid_volume, ask_volume), total_volume), RInt(100))
    ELSE Zero

_calculate_metrics(book, metrics) ==
    LET bids == TopBids(book.bids, TopDepth)
        asks == TopAsks(book.asks, TopDepth)
    IN  IF bids # {} /\ asks # {}
        THEN LET price == RDiv(RInt(Max(bids) + Min(asks)), RInt(2))
                 bv == Notional(book.bids, bids, price)
                 av == Notional(book.asks, asks, price)
             IN  [current_price |-> price, bid_volume |-> bv, ask_volume |-> av,
                  imbalance |-> Imbalance(bv, av)]
        ELSE metrics

----------------------------------------------------------------------------
(* datetime and the histories *)

\* None, for a minute
NoMinute == -1
\* None, for a datetime
NoTime == [hour |-> -1, minute |-> -1, second |-> -1, microsecond |-> -1]

Time(h, m, s, u) == [hour |-> h, minute |-> m, second |-> s, microsecond |-> u]

\* datetime.now() never runs backwards
NotBefore(t, u) ==
    \/ u.hour > t.hour
    \/ u.hour = t.hour /\ u.minute > t.minute
    \/ u.hour = t.hour /\ u.minute = t.minute /\ u.second > t.second
    \/ u.hour = t.hour /\ u.minute = t.minute /\ u.second = t.second
         /\ u.microsecond >= t.microsecond

EmptyHistory == [time |-> NoTime, imbalance |-> <<>>, bid_volume |-> <<>>, ask_volume |-> <<>>]

Timeframes == {"1m", "5m", "15m"}

\* _update_higher_timeframe that stops after its first append
_update_higher_timeframe_partial(hist, timeframe, now, n_minutes) ==
    LET imb == RDiv(RSum(LastN(hist["1m"].imbalance, n_minutes)), RInt(n_minutes))
    IN  [hist EXCEPT ![timeframe].imbalance = Append(hist[timeframe].imbalance, imb)]

\* sum(history['1m'][...][-n_minutes:]) / n_minutes, appended to the timeframe
_update_higher_timeframe(hist, timeframe, now, n_minutes) ==
    LET imb == RDiv(RSum(LastN(hist["1m"].imbalance, n_minutes)), RInt(n_minutes))
        bid == RDiv(RSum(LastN(hist["1m"].bid_volume, n_minutes)), RInt(n_minutes))
        ask == RDiv(RSum(LastN(hist["1m"].ask_volume, n_minutes)), RInt(n_minutes))
    IN  [hist EXCEPT ![timeframe] =
            [time |-> now,
             imbalance  |-> Append(hist[timeframe].imbalance, imb),
             bid_volume |-> Append(hist[timeframe].bid_volume, bid),
             ask_volume |-> Append(hist[timeframe].ask_volume, ask)]]

\* sum(buffer) / len(buffer)
Average(s) == RDiv(RSum(s), RInt(Len(s)))

\* the "beginning of the minute" test of line 410
AtMinuteStart(now) == now.second = 0 /\ now.microsecond < 100000

\* FlushMinute with a zero entry for every minute that passed without a snapshot
FlushMinuteZeroFill(hist, cmd, now) ==
    IF cmd.minute # NoMinute /\ cmd.imbalances # <<>>
    THEN LET zeros == [i \in 1..(((now.minute - cmd.minute) % 60) - 1) |-> Zero]
             h1 == [hist EXCEPT !["1m"] =
                       [time |-> now,
                        imbalance  |-> Append(hist["1m"].imbalance, Average(cmd.imbalances)) \o zeros,
                        bid_volume |-> Append(hist["1m"].bid_volume, Average(cmd.bid_volumes)) \o zeros,
                        ask_volume |-> Append(hist["1m"].ask_volume, Average(cmd.ask_volumes)) \o zeros]]
         IN  IF AtMinuteStart(now) /\ now.minute % 5 = 0
             THEN LET h5 == _update_higher_timeframe(h1, "5m", now, 5) IN
                  IF now.minute % 15 = 0
                  THEN _update_higher_timeframe(h5, "15m", now, 15)
                  ELSE h5
             ELSE h1
    ELSE hist

\* the history after the flush of the closed minute (lines 380-434)
FlushMinute(hist, cmd, now) ==
    IF cmd.minute # NoMinute /\ cmd.imbalances # <<>>
    THEN LET h1 == [hist EXCEPT !["1m"] =
                       [time |-> now,
                        imbalance  |-> Append(hist["1m"].imbalance, Average(cmd.imbalances)),
                        bid_volume |-> Append(hist["1m"].bid_volume, Average(cmd.bid_volumes)),
                        ask_volume |-> Append(hist["1m"].ask_volume, Average(cmd.ask_volumes))]]
         IN  IF AtMinuteStart(now) /\ now.minute % 5 = 0
             THEN LET h5 == _update_higher_timeframe(h1, "5m", now, 5) IN
                  IF now.minute % 15 = 0
                  THEN _update_higher_timeframe(h5, "15m", now, 15)
                  ELSE h5
             ELSE h1
    ELSE hist

\* _update_history with the arriving snapshot put into the buffer before the
\* closed minute is flushed
_update_history_counts_trigger(hist, cmd, metrics, now) ==
    LET rolled == cmd.minute # now.minute
        full == [imbalances  |-> Append(cmd.imbalances, metrics.imbalance),
                 bid_volumes |-> Append(cmd.bid_volumes, metrics.bid_volume),
                 ask_volumes |-> Append(cmd.ask_volumes, metrics.ask_volume),
                 minute |-> cmd.minute]
    IN  [history |-> IF rolled THEN FlushMinute(hist, full, now) ELSE hist,
         current_minute_data |->
            IF rolled
            THEN [imbalances |-> <<metrics.imbalance>>,
                  bid_volumes |-> <<metrics.bid_volume>>,
                  ask_volumes |-> <<metrics.ask_volume>>,
                  minute |-> now.minute]
            ELSE full]

\* _update_history: the pair of the new history and the new minute buffer
_update_history(hist, cmd, metrics, now) ==
    LET rolled == cmd.minute # now.minute
        h == IF rolled THEN FlushMinute(hist, cmd, now) ELSE hist
        c == IF rolled
             THEN [imbalances |-> <<>>, bid_volumes |-> <<>>, ask_volumes |-> <<>>,
                   minute |-> now.minute]
             ELSE cmd
    IN  [history |-> h,
         current_minute_data |->
            [imbalances  |-> Append(c.imbalances, metrics.imbalance),
             bid_volumes |-> Append(c.bid_volumes, metrics.bid_volume),
             ask_volumes |-> Append(c.ask_volumes, metrics.ask_volume),
             minute |-> c.minute]]

\* max_items of _cleanup_history
max_items == [tf \in Timeframes |->
                CASE tf = "1m" -> 60 [] tf = "5m" -> 12 [] tf = "15m" -> 4]

\* _cleanup_history: pop(0) while a list is longer than its cap.  No method of
\* the class calls it, so no action of the model uses it.
_cleanup_history(hist) ==
    [tf \in Timeframes |->
        [time |-> hist[tf].time,
         imbalance  |-> LastN(hist[tf].imbalance, max_items[tf]),
         bid_volume |-> LastN(hist[tf].bid_volume, max_items[tf]),
         ask_volume |-> LastN(hist[tf].ask_volume, max_items[tf])]]

----------------------------------------------------------------------------
(* Analysis of a timeframe (lines 117-162, 284-300) *)

\* Python's None
None == [none |-> TRUE]

\* the default of the parameter min_history
default_min_history == 3
\* the [-10:] slices
TrendWindow == 10
\* the margin of "imbalances[0] + 5" and "imbalances[0] - 5"
TrendMargin == 5

\* analyze_timeframe: value is the dict returned or None; raised tells that an
\* exception (IndexError on an empty list, ZeroDivisionError) was caught by
\* the except clause, which logs an error and returns None.  The dict has the
\* keys trend_ascii, current_imbalance and volume_ratio; the local variable
\* trend is not put into it.
analyze_timeframe(hist, timeframe, min_history) ==
    LET h == hist[timeframe]
        n == Len(h.imbalance)
    IN  IF n < min_history
        THEN IF n = 0 \/ Last(h.ask_volume) = Zero
             THEN [value |-> None, raised |-> TRUE]
             ELSE [value |-> [trend_ascii |-> "-",
                              current_imbalance |-> Last(h.imbalance),
                              volume_ratio |-> RDiv(Last(h.bid_volume), Last(h.ask_volume))],
                   raised |-> FALSE]
        ELSE IF n < 2
        THEN [value |-> None, raised |-> FALSE]
        ELSE LET imbalances == LastN(h.imbalance, TrendWindow)
                 volumes_bid == LastN(h.bid_volume, TrendWindow)
                 volumes_ask == LastN(h.ask_volume, TrendWindow)
                 trend_ascii ==
                    IF RLess(RAdd(imbalances[1], RInt(TrendMargin)), Last(imbalances))
                    THEN "UP"
                    ELSE IF RLess(Last(imbalances), RSub(imbalances[1], RInt(TrendMargin)))
                    THEN "DOWN"
                    ELSE "-"
             IN  [value |-> [trend_ascii |-> trend_ascii,
                             current_imbalance |-> Last(imbalances),
                             volume_ratio |-> IF RLess(Zero, Last(volumes_ask))
                                              THEN RDiv(Last(volumes_bid), Last(volumes_ask))
                                              ELSE RInt(1)],
                  raised |-> FALSE]

\* calculate_imbalance_speed: history[-1] - history[-2], 0.0 on a short history
calculate_imbalance_speed(hist, timeframe) ==
    LET h == hist[timeframe].imbalance IN
    IF Len(h) < 2 THEN Zero ELSE RSub(h[Len(h)], h[Len(h) - 1])

----------------------------------------------------------------------------
(* Signals (lines 526-631) *)

\* sorted(..., reverse=True) and sorted(...) of a set of prices
Descending(S) ==
    [i \in 1..Cardinality(S) |-> CHOOSE p \in S : Cardinality({q \in S : q > p}) = i - 1]

Ascending(S) ==
    [i \in 1..Cardinality(S) |-> CHOOSE p \in S : Cardinality({q \in S : q < p}) = i - 1]

\* the [:20] of detect_large_orders
LargeDepth == 20
\* threshold = avg_volume * 5
LargeFactor == 5

\* LargeLevels with "qty >= threshold"
LargeLevelsGeq(levels, prices, threshold) ==
    LET keep == {i \in 1..Len(prices) : RLeq(threshold, RInt(levels[prices[i]]))}
        nth(k) == CHOOSE i \in keep : Cardinality({j \in keep : j < i}) = k - 1
    IN  [k \in 1..Cardinality(keep) |-> <<prices[nth(k)], levels[prices[nth(k)]]>>]

\* for price, qty in side: if qty > threshold: result.append((price, qty));
\* the pairs kept, in the order of the side
LargeLevels(levels, prices, threshold) ==
    LET keep == {i \in 1..Len(prices) : RLess(threshold, RInt(levels[prices[i]]))}
        nth(k) == CHOOSE i \in keep : Cardinality({j \in keep : j < i}) = k - 1
    IN  [k \in 1..Cardinality(keep) |-> <<prices[nth(k)], levels[prices[nth(k)]]>>]

\* detect_large_orders: the (price, quantity) pairs, in sorted order, of the
\* top-20 levels of each side whose quantity is above 5 times the mean
\* quantity of those levels, both sides pooled; sum, division and product
\* are float operations
detect_large_orders(book) ==
    LET bids == Descending(TopBids(book.bids, LargeDepth))
        asks == Ascending(TopAsks(book.asks, LargeDepth))
        all_volumes == [i \in 1..Len(bids) |-> RInt(book.bids[bids[i]])]
                       \o [i \in 1..Len(asks) |-> RInt(book.asks[asks[i]])]
    IN  IF all_volumes = <<>>
        THEN [bids |-> <<>>, asks |-> <<>>]
        ELSE LET avg_volume == fl(RDiv(FSum(all_volumes), RInt(Len(all_volumes))))
                 threshold == fl(RMul(avg_volume, RInt(LargeFactor)))
             IN  [bids |-> LargeLevels(book.bids, bids, threshold),
                  asks |-> LargeLevels(book.asks, asks, threshold)]

\* max(list) and min(list) of floats
RMax(s) == CHOOSE x \in {s[i] : i \in 1..Len(s)} : \A i \in 1..Len(s) : RLeq(s[i], x)
RMin(s) == CHOOSE x \in {s[i] : i \in 1..Len(s)} : \A i \in 1..Len(s) : RLeq(x, s[i])

\* the [-5:] slices and the "< 5" of detect_accumulation
AccumulationWindow == 5
\* imb_volatility < 10
VolatilityLimit == 10
\* volumes[0] * 1.2
GrowthFactor == Rat(6, 5)
\* sum(1 for i in imbalances if i > 0) >= 3
MinPositive == 3

\* the str object detect_accumulation returns when it finds the pattern
AccumulationFound == [str |-> "accumulation: stable imbalance + growing volume"]

\* detect_accumulation with "more than 3" positive imbalances
detect_accumulation_strict(hist) ==
    IF Len(hist["1m"].imbalance) < AccumulationWindow
    THEN None
    ELSE LET imbalances == LastN(hist["1m"].imbalance, AccumulationWindow)
             volumes == LastN(hist["1m"].bid_volume, AccumulationWindow)
             imb_volatility == RSub(RMax(imbalances), RMin(imbalances))
             volume_trend == RLess(RMul(volumes[1], GrowthFactor), Last(volumes))
             positive_imb ==
                Cardinality({i \in 1..Len(imbalances) : RLess(Zero, imbalances[i])})
                    > MinPositive
         IN  IF RLess(imb_volatility, RInt(VolatilityLimit)) /\ volume_trend /\ positive_imb
             THEN AccumulationFound
             ELSE None

\* detect_accumulation: the pattern string or None
detect_accumulation(hist) ==
    IF Len(hist["1m"].imbalance) < AccumulationWindow
    THEN None
    ELSE LET imbalances == LastN(hist["1m"].imbalance, AccumulationWindow)
             volumes == LastN(hist["1m"].bid_volume, AccumulationWindow)
             imb_volatility == RSub(RMax(imbalances), RMin(imbalances))
             volume_trend == RLess(RMul(volumes[1], GrowthFactor), Last(volumes))
             positive_imb ==
                Cardinality({i \in 1..Len(imbalances) : RLess(Zero, imbalances[i])})
                    >= MinPositive
         IN  IF RLess(imb_volatility, RInt(VolatilityLimit)) /\ volume_trend /\ positive_imb
             THEN AccumulationFound
             ELSE None

\* analysis_params['imbalance_threshold']
imbalance_threshold == 40
\* abs(imbalance_speed) > 15
SpeedLimit == 15

\* the strings a['trend'] is compared with
UpArrow == "arrow up-right"
DownArrow == "arrow down-right"

RAbs(x) == <<Abs(x[1]), x[2]>>

\* generate_signals: raised tells that an exception left the method (it has no
\* try), signals is the list it returned.  The signals are named here by
\* their rule and direction.  The dicts of analyze_timeframe have no key
\* 'trend', so a['trend'] raises KeyError as soon as the three analyses are
\* there.
generate_signals(hist, metrics, book) ==
    LET analysis == [tf \in Timeframes |->
                        analyze_timeframe(hist, tf, default_min_history).value]
        s1 == IF RLess(RInt(imbalance_threshold), RAbs(metrics.imbalance))
              THEN <<IF RLess(Zero, metrics.imbalance)
                     THEN "imbalance: buy" ELSE "imbalance: sell">>
              ELSE <<>>
        s2 == IF \A tf \in Timeframes : analysis[tf].trend = UpArrow
              THEN <<"trend: up on all timeframes">>
              ELSE IF \A tf \in Timeframes : analysis[tf].trend = DownArrow
              THEN <<"trend: down on all timeframes">>
              ELSE <<>>
        imbalance_speed == calculate_imbalance_speed(hist, "1m")
        s3 == IF RLess(RInt(SpeedLimit), RAbs(imbalance_speed))
              THEN <<IF RLess(Zero, imbalance_speed)
                     THEN "speed: rising" ELSE "speed: falling">>
              ELSE <<>>
        large_orders == detect_large_orders(book)
        s4 == (IF large_orders.bids # <<>> THEN <<"large orders: bids">> ELSE <<>>)
              \o (IF large_orders.asks # <<>> THEN <<"large orders: asks">> ELSE <<>>)
        accumulation == detect_accumulation(hist)
        s5 == IF accumulation # None THEN <<accumulation.str>> ELSE <<>>
    IN  IF \E tf \in Timeframes : analysis[tf] = None
        THEN [raised |-> FALSE, signals |-> <<>>]
        ELSE IF \E tf \in Timeframes : "trend" \notin DOMAIN analysis[tf]
        THEN [raised |-> TRUE, signals |-> <<>>]
        ELSE [raised |-> FALSE, signals |-> s1 \o s2 \o s3 \o s4 \o s5]

----------------------------------------------------------------------------
(* The feed: deltas and clock readings *)

NoMessage == [none |-> TRUE]

\* (price string, quantity string) pairs of the depth stream; the last one
\* carries a price float() rejects
Entries == {<<"1", "1">>, <<"1", "2">>, <<"2", "1">>, <<"1", "0">>, <<"2", "-1">>,
            <<"x", "1">>}

RECURSIVE SeqsOf(_, _)
SeqsOf(S, n) ==
    IF n = 0 THEN {<<>>}
    ELSE LET shorter == SeqsOf(S, n - 1) IN
         shorter \cup {Append(s, e) : s \in {t \in shorter : Len(t) = n - 1}, e \in S}

\* deltas with at most MaxEntries entries, and two that lack a key
Messages ==
    {m \in [b : SeqsOf(Entries, MaxEntries), a : SeqsOf(Entries, MaxEntries)] :
        Len(m.b) + Len(m.a) <= MaxEntries}
    \cup {[a |-> <<<<"1", "1">>>>], [b |-> <<<<"1", "1">>>>]}

\* the clock of a burst of deltas: readings that differ in no field the code reads
Clock == {Time(0, 0, 30, 0)}

\* three deltas that move the metrics: a two-sided book, a larger bid, nothing
HistMessages ==
    {[b |-> <<<<"1", "1">>>>, a |-> <<<<"2", "1">>>>],
     [b |-> <<<<"1", "2">>>>, a |-> <<>>],
     [b |-> <<>>, a |-> <<>>]}

\* clock readings around the minutes 15 (a 5m and 15m boundary) and 20 (a 5m
\* boundary): at the start of the minute, later in its first second, later;
\* and minute 15 of the next hour
HistClock ==
    {Time(0, 14, 30, 0),
     Time(0, 15, 0, 0), Time(0, 15, 0, 150000), Time(0, 15, 30, 0),
     Time(0, 16, 30, 0),
     Time(0, 20, 0, 0), Time(0, 20, 0, 150000),
     Time(1, 15, 0, 0)}

\* two deltas, and the first reading of each quarter of an hour
CapMessages ==
    {[b |-> <<<<"1", "1">>>>, a |-> <<<<"2", "1">>>>],
     [b |-> <<>>, a |-> <<>>]}

CapClock ==
    {Time(0, 14, 30, 0), Time(0, 15, 0, 0), Time(0, 30, 0, 0), Time(0, 45, 0, 0),
     Time(1, 0, 0, 0), Time(1, 15, 0, 0)}

\* deltas for the large-order detection: four bids of quantity 1, a fifth bid
\* of quantity 20 or 25, two asks of quantity 1, and two deep sides of 21
\* levels whose level farthest from the top has quantity 25
LargeMessages ==
    {[b |-> <<<<"1", "1">>, <<"2", "1">>, <<"3", "1">>, <<"4", "1">>>>, a |-> <<>>],
     [b |-> <<<<"5", "20">>>>, a |-> <<>>],
     [b |-> <<<<"5", "25">>>>, a |-> <<>>],
     [b |-> <<>>, a |-> <<<<"6", "1">>>>],
     [b |-> <<>>, a |-> <<<<"7", "1">>>>],
     [b |-> [i \in 1..21 |-> <<NumberStrings[i], IF i = 1 THEN "25" ELSE "1">>], a |-> <<>>],
     [b |-> <<>>, a |-> [i \in 1..21 |-> <<NumberStrings[i], IF i = 21 THEN "25" ELSE "1">>]]}

\* deltas that build a book of five levels, one of them 41008 times the
\* others, and deltas that shrink that level or remove an ask
RoundMessages ==
    {[b |-> <<<<"1", "41008">>, <<"2", "1">>, <<"3", "1">>>>, a |-> <<>>],
     [b |-> <<>>, a |-> <<<<"4", "1">>, <<"5", "1">>>>],
     [b |-> <<<<"1", "25">>>>, a |-> <<>>],
     [b |-> <<>>, a |-> <<<<"5", "0">>>>]}

\* deltas that set the one bid and the one ask of the book: imbalance 0,
\* imbalance 100/21, the same imbalance at twice the volume, imbalance 100/3
AccumMessages ==
    {[b |-> <<<<"1", "10">>>>, a |-> <<<<"2", "10">>>>],
     [b |-> <<<<"1", "11">>>>, a |-> <<<<"2", "10">>>>],
     [b |-> <<<<"1", "22">>>>, a |-> <<<<"2", "20">>>>],
     [b |-> <<<<"1", "2">>>>, a |-> <<<<"2", "1">>>>]}

\* the clock of a feed that delivers one delta a minute: the reading that
\* follows the reading t
OncePerMinute(t) == {Time(0, t.minute + 1, 30, 0)}

----------------------------------------------------------------------------
(* run and connect_to_binance (lines 329-360) *)

Init ==
    /\ current_orderbook = [bids |-> <<>>, asks |-> <<>>]
    /\ current_metrics = [bid_volume |-> Zero, ask_volume |-> Zero,
                          imbalance |-> Zero, current_price |-> Zero]
    /\ history = [tf \in Timeframes |-> EmptyHistory]
    /\ current_minute_data = [imbalances |-> <<>>, bid_volumes |-> <<>>,
                              ask_volumes |-> <<>>, minute |-> NoMinute]
    /\ message = NoMessage
    /\ current_time = NoTime
    /\ pc = "connect"
    /\ delivered = 0
    /\ minutes = {}
    /\ websocket = [id |-> 0, open |-> FALSE]

\* async with websockets.connect(ws_url) as websocket succeeds
websockets_connect ==
    /\ pc = "connect"
    /\ websocket' = [id |-> websocket.id + 1, open |-> TRUE]
    /\ pc' = "recv"
    /\ UNCHANGED <<current_orderbook, current_metrics, history, current_minute_data,
                   message, current_time, delivered, minutes>>

\* websockets.connect raises: the outer except logs and sleeps 5 seconds
connect_raises ==
    /\ pc = "connect"
    /\ pc' = "sleep5"
    /\ UNCHANGED <<current_orderbook, current_metrics, history, current_minute_data,
                   message, current_time, delivered, minutes, websocket>>

\* connect_to_binance returns and the loop of run calls it again
run_again ==
    /\ pc = "sleep5"
    /\ pc' = "connect"
    /\ UNCHANGED <<current_orderbook, current_metrics, history, current_minute_data,
                   message, current_time, delivered, minutes, websocket>>

\* the transport drops the connection while the loop waits in recv
connection_closed ==
    /\ pc = "recv"
    /\ websocket.open
    /\ websocket' = [websocket EXCEPT !.open = FALSE]
    /\ UNCHANGED <<current_orderbook, current_metrics, history, current_minute_data,
                   message, current_time, pc, delivered, minutes>>

\* websocket.recv() raises ConnectionClosed: the except of the loop body
\* (line 343) logs and sleeps 1 second
recv_raises ==
    /\ pc = "recv"
    /\ ~websocket.open
    /\ pc' = "sleep1"
    /\ UNCHANGED <<current_orderbook, current_metrics, history, current_minute_data,
                   message, current_time, delivered, minutes, websocket>>

\* after the sleep the loop calls recv on the same websocket again
recv_again ==
    /\ pc = "sleep1"
    /\ pc' = "recv"
    /\ UNCHANGED <<current_orderbook, current_metrics, history, current_minute_data,
                   message, current_time, delivered, minutes, websocket>>

\* message = await websocket.recv()
websocket_recv(msgs, limit) ==
    /\ pc = "recv"
    /\ websocket.open
    /\ delivered < limit
    /\ \E m \in msgs : message' = m
    /\ pc' = "process"
    /\ delivered' = delivered + 1
    /\ UNCHANGED <<current_orderbook, current_metrics, history, current_minute_data,
                   current_time, minutes, websocket>>

\* the methods the try block of process_depth_message calls, in call order
pipeline ==
    <<"_update_orderbook", "_calculate_metrics", "_update_history", "_print_debug_info">>

\* "except Exception as e: logger.error(...)": whether an exception raised
\* in the try block leaves the method; the handler logs and raises nothing
except_propagates(raised) == raised

except_logs(raised) == FALSE

\* whether the try block of _update_orderbook raises: KeyError on a missing
\* 'b' or 'a', ValueError on an entry float() rejects
_update_orderbook_raised(book, msg) ==
    \/ "b" \notin DOMAIN msg
    \/ ApplySide(book.bids, msg.b).raised
    \/ "a" \notin DOMAIN msg
    \/ ApplySide(book.asks, msg.a).raised

\* whether an exception leaves _print_debug_info, which has no try block of
\* its own: its analyze_timeframe calls (default min_history, at second 0)
\* catch what they raise
_print_debug_info_raised(hist, now) ==
    /\ now.microsecond < 100000
    /\ now.second = 0 /\ now.microsecond < 1000
    /\ \/ except_logs(analyze_timeframe(hist, "1m", default_min_history).raised)
       \/ /\ now.minute % 5 = 0
          /\ except_logs(analyze_timeframe(hist, "5m", default_min_history).raised)

\* await self.process_depth_message(symbol, json.loads(message)):
\* _update_orderbook, _calculate_metrics, datetime.now(), _update_history.
\* _print_debug_info and the analyze_timeframe calls of _update_history only
\* log (analyze_timeframe catches what it raises), so they change no state;
\* neither _cleanup_history nor generate_signals is called.  Every stage but
\* _print_debug_info has its own try/except and the method has one around
\* all of them; an exception that left it would reach the except of the
\* receive loop (sleep 1 second).
process_depth_message(clock) ==
    /\ pc = "process"
    /\ \E now \in clock :
        /\ NotBefore(current_time, now)
        /\ LET book == _update_orderbook(current_orderbook, message)
               metrics == _calculate_metrics(book, current_metrics)
               upd == _update_history(history, current_minute_data, metrics, now)
               raised ==
                  \/ except_logs(_update_orderbook_raised(current_orderbook, message))
                  \/ _print_debug_info_raised(upd.history, now)
           IN  /\ current_orderbook' = book
               /\ current_metrics' = metrics
               /\ history' = upd.history
               /\ current_minute_data' = upd.current_minute_data
               /\ current_time' = now
               /\ minutes' = minutes \cup {<<now.hour, now.minute>>}
               /\ pc' = IF except_logs(raised) THEN "sleep1" ELSE "processed"
    /\ UNCHANGED <<message, delivered, websocket>>

\* the end of the loop body: back to "while True", the message is dropped
next_iteration ==
    /\ pc = "processed"
    /\ message' = NoMessage
    /\ pc' = "recv"
    /\ UNCHANGED <<current_orderbook, current_metrics, history, current_minute_data,
                   current_time, delivered, minutes, websocket>>

\* a short run on deltas of every shape
Next ==
    \/ websockets_connect
    \/ websocket_recv(Messages, MaxDeltas)
    \/ process_depth_message(Clock)
    \/ next_iteration

Spec == Init /\ [][Next]_vars

\* a run across minute, 5-minute and 15-minute boundaries
NextHist ==
    \/ websockets_connect
    \/ websocket_recv(HistMessages, MaxHistDeltas)
    \/ process_depth_message(HistClock)
    \/ next_iteration

SpecHist == Init /\ [][NextHist]_vars

\* a run of more than an hour, one delta at the start of each quarter
NextCap ==
    \/ websockets_connect
    \/ websocket_recv(CapMessages, MaxCapDeltas)
    \/ process_depth_message(CapClock)
    \/ next_iteration

SpecCap == Init /\ [][NextCap]_vars

\* a run in which connecting can fail and the connection can be closed
NextConn ==
    \/ websockets_connect
    \/ connect_raises
    \/ run_again
    \/ websocket_recv(CapMessages, MaxConnDeltas)
    \/ process_depth_message(HistClock)
    \/ next_iteration
    \/ connection_closed
    \/ recv_raises
    \/ recv_again

SpecConn == Init /\ [][NextConn]_vars

\* the same run under the scheduling of the event loop: a coroutine that can
\* take its next step takes it (a failed recv reaches the except, a sleep
\* ends, the loop body ends, a connection attempt succeeds or fails); what
\* the network does (which of the two a connection attempt does, a message
\* arriving, the connection dropping) is not forced.  The call of
\* process_depth_message is always able to return, so the loop never stays
\* in it.
SpecConnFair ==
    /\ SpecConn
    /\ WF_vars(recv_raises)
    /\ WF_vars(recv_again)
    /\ WF_vars(run_again)
    /\ WF_vars(next_iteration)
    /\ WF_vars(websockets_connect \/ connect_raises)
    /\ []<>(pc # "process")

\* a run that builds books of up to 21 levels a side
NextLarge ==
    \/ websockets_connect
    \/ websocket_recv(LargeMessages, MaxLargeDeltas)
    \/ process_depth_message(Clock)
    \/ next_iteration

SpecLarge == Init /\ [][NextLarge]_vars

\* a run of one delta a minute, long enough for six 1m entries
NextAccum ==
    \/ websockets_connect
    \/ websocket_recv(AccumMessages, MaxAccumDeltas)
    \/ process_depth_message(OncePerMinute(current_time))
    \/ next_iteration

SpecAccum == Init /\ [][NextAccum]_vars

\* a run on a book whose quantities differ by more than a float resolves
NextRound ==
    \/ websockets_connect
    \/ websocket_recv(RoundMessages, MaxRoundDeltas)
    \/ process_depth_message(Clock)
    \/ next_iteration

SpecRound == Init /\ [][NextRound]_vars

----------------------------------------------------------------------------
(* Properties of the order book *)

WellFormed(e) == Parses(e[1]) /\ Parses(e[2])

\* the prices a side holds before or after a step, and those the entries name;
\* no other price is a level of the side or touched by the entries
Prices(old, new, es) ==
    DOMAIN old \cup DOMAIN new \cup {float(es[i][1]) : i \in 1..Len(es)}

Levels(book, k) == IF k = "b" THEN book.bids ELSE book.asks

\* index of the first entry float() rejects, Len + 1 when there is none
FirstBad(entries) ==
    Min({i \in 1..Len(entries) : ~WellFormed(entries[i])} \cup {Len(entries) + 1})

\* the entries of side k that were applied before the delta was given up
Applied(msg, k) ==
    IF k = "b"
    THEN IF "b" \in DOMAIN msg THEN SubSeq(msg.b, 1, FirstBad(msg.b) - 1) ELSE <<>>
    ELSE IF {"b", "a"} \subseteq DOMAIN msg /\ FirstBad(msg.b) > Len(msg.b)
         THEN SubSeq(msg.a, 1, FirstBad(msg.a) - 1)
         ELSE <<>>

\* level p of side `new` is what the entries es make of level p of side `old`:
\* the last entry naming p decides, and a price no entry names is untouched
LevelFollows(old, new, es, p) ==
    LET named == {i \in 1..Len(es) : float(es[i][1]) = p} IN
    IF named = {}
    THEN (p \in DOMAIN new <=> p \in DOMAIN old)
         /\ (p \in DOMAIN new => new[p] = old[p])
    ELSE LET qty == float(es[Max(named)][2]) IN
         IF qty > 0 THEN p \in DOMAIN new /\ new[p] = qty
                    ELSE p \notin DOMAIN new

ProcessStep == pc = "process" /\ pc' = "processed"

\* C1: every applied entry with qty <= 0 leaves its price absent from its side,
\* every applied entry with qty > 0 leaves its price at exactly that quantity
\* (replaced, not added), and every other level of both sides is unchanged.
C1_UpsertOrRemove ==
    [][ProcessStep =>
          \A k \in {"b", "a"} :
              \A p \in Prices(Levels(current_orderbook, k), Levels(current_orderbook', k),
                              Applied(message, k)) :
                  LevelFollows(Levels(current_orderbook, k), Levels(current_orderbook', k),
                               Applied(message, k), p)]_vars

\* a delta that set price 1 twice on the bid side was applied: the level holds
\* the second quantity, and the ask side still holds what an earlier delta set
C1_Witness ==
    /\ pc = "processed"
    /\ DOMAIN message = {"b", "a"}
    /\ message.b = <<<<"1", "1">>, <<"1", "2">>>>
    /\ message.a = <<>>
    /\ current_orderbook.bids[1] = 2
    /\ 2 \in DOMAIN current_orderbook.asks

\* C2: an entry that cannot be parsed is the only entry of its delta that is
\* skipped: every well-formed entry of the delta that is the last one naming
\* its price on its side has decided that level of the book.
C2_MalformedEntryOnlySkipped ==
    (pc = "processed" /\ DOMAIN message = {"b", "a"}) =>
        \A k \in {"b", "a"} : \A i \in 1..Len(message[k]) :
            LET e == message[k][i]
                levels == Levels(current_orderbook, k)
            IN  (WellFormed(e)
                 /\ \A j \in (i + 1)..Len(message[k]) :
                        WellFormed(message[k][j]) => message[k][j][1] # e[1])
                => IF float(e[2]) > 0
                   THEN float(e[1]) \in DOMAIN levels /\ levels[float(e[1])] = float(e[2])
                   ELSE float(e[1]) \notin DOMAIN levels

\* C3: applying the delta just applied a second time leaves the book as it is.
C3_ApplyIdempotent ==
    pc = "processed" => _update_orderbook(current_orderbook, message) = current_orderbook

\* a delta naming price 1 twice, with different quantities, was applied to a
\* book that is not empty afterwards
C3_Witness ==
    /\ pc = "processed"
    /\ DOMAIN message = {"b", "a"}
    /\ message.a = <<<<"1", "2">>, <<"1", "1">>>>
    /\ current_orderbook.asks[1] = 1
    /\ current_orderbook.bids # <<>>

\* C4: every quantity stored in the book is strictly positive.
C4_QuantitiesPositive ==
    \A k \in {"b", "a"} : \A p \in DOMAIN Levels(current_orderbook, k) :
        Levels(current_orderbook, k)[p] > 0

\* a delta with a zero and a negative quantity was applied and the book still
\* holds a level
C4_Witness ==
    /\ pc = "processed"
    /\ DOMAIN message = {"b", "a"}
    /\ message.b = <<<<"1", "0">>, <<"2", "-1">>>>
    /\ current_orderbook.bids = <<>>
    /\ current_orderbook.asks # <<>>

----------------------------------------------------------------------------
(* Properties of the metrics *)

AllZero == [bid_volume |-> Zero, ask_volume |-> Zero, imbalance |-> Zero,
            current_price |-> Zero]

\* total notional volume of the considered levels of a book: the quantities
\* of the top levels of both sides at the mid price, 0 when a side is empty
TopVolume(book) ==
    LET bids == TopBids(book.bids, TopDepth)
        asks == TopAsks(book.asks, TopDepth)
    IN  IF bids = {} \/ asks = {} THEN Zero
        ELSE LET price == RDiv(RInt(Max(bids) + Min(asks)), RInt(2)) IN
             RAdd(Notional(book.bids, bids, price), Notional(book.asks, asks, price))

\* C5: after every processed delta the imbalance is in [-100, 100] when the
\* total volume of the considered levels of the current book is > 0, and it is
\* exactly 0 when that volume is 0.
C5_ImbalanceRange ==
    pc = "processed" =>
        LET total == TopVolume(current_orderbook) IN
        /\ RLess(Zero, total) =>
              /\ RLeq(RInt(-100), current_metrics.imbalance)
              /\ RLeq(current_metrics.imbalance, RInt(100))
        /\ total = Zero => current_metrics.imbalance = Zero

\* C6: when a side of the book is empty after a delta, the metrics of that
\* delta are all 0.
C6_DegradeToZero ==
    (pc = "processed"
        /\ (DOMAIN current_orderbook.bids = {} \/ DOMAIN current_orderbook.asks = {}))
    => current_metrics = AllZero

----------------------------------------------------------------------------
(* Properties of the histories *)

\* m is the arithmetic mean of the non-empty list s
IsMeanOf(m, s) == s # <<>> /\ RMul(RInt(Len(s)), m) = RSum(s)

\* exactly one entry e was appended to the list
AppendedOne(old, new) == Len(new) = Len(old) + 1 /\ SubSeq(new, 1, Len(old)) = old

\* C7: the 1m, 5m and 15m histories never hold more than 60, 12 and 4 entries.
C7_HistoryCaps ==
    \A tf \in Timeframes :
        /\ Len(history[tf].imbalance) <= max_items[tf]
        /\ Len(history[tf].bid_volume) <= max_items[tf]
        /\ Len(history[tf].ask_volume) <= max_items[tf]

\* the step that processes the first snapshot of a minute other than the one
\* the accumulator holds
Rollover ==
    /\ ProcessStep
    /\ current_minute_data.minute # NoMinute
    /\ current_time'.minute # current_minute_data.minute

\* C8: a minute rollover appends exactly one entry to the 1m history, the mean
\* of the snapshots buffered in the closed minute; the snapshot that triggers
\* it is not in that mean and is the only element of the new accumulator.
C8_RolloverAppendsMean ==
    [][Rollover =>
          /\ AppendedOne(history["1m"].imbalance, history'["1m"].imbalance)
          /\ AppendedOne(history["1m"].bid_volume, history'["1m"].bid_volume)
          /\ AppendedOne(history["1m"].ask_volume, history'["1m"].ask_volume)
          /\ IsMeanOf(Last(history'["1m"].imbalance), current_minute_data.imbalances)
          /\ IsMeanOf(Last(history'["1m"].bid_volume), current_minute_data.bid_volumes)
          /\ IsMeanOf(Last(history'["1m"].ask_volume), current_minute_data.ask_volumes)
          /\ current_minute_data' =
                [imbalances  |-> <<current_metrics'.imbalance>>,
                 bid_volumes |-> <<current_metrics'.bid_volume>>,
                 ask_volumes |-> <<current_metrics'.ask_volume>>,
                 minute |-> current_time'.minute]]_vars

\* the third delta rolled the minute over: the one 1m entry is the mean of the
\* two snapshots of the closed minute (imbalances 0 and 100/3, bid volumes 3/2
\* and 3), and the accumulator holds the third snapshot alone
C8_Witness ==
    /\ pc = "processed"
    /\ delivered = 3
    /\ current_time.hour = 0
    /\ history["1m"].imbalance = <<Rat(50, 3)>>
    /\ history["1m"].bid_volume = <<Rat(9, 4)>>
    /\ Len(current_minute_data.imbalances) = 1

\* C9: a rollover into a minute m with m mod 5 = 0 appends one entry to the 5m
\* history, and one to the 15m history when m mod 15 = 0, at whatever offset
\* inside the minute the first snapshot arrives.
C9_BoundaryAppends ==
    [][(Rollover /\ current_time'.minute % 5 = 0) =>
          /\ AppendedOne(history["5m"].imbalance, history'["5m"].imbalance)
          /\ current_time'.minute % 15 = 0 =>
                AppendedOne(history["15m"].imbalance, history'["15m"].imbalance)]_vars

\* the lists of timeframe tf grew in this step, and each new entry is the mean
\* of the last n entries of the 1m history (of those present, when fewer)
AppendsMeanOfLast(tf, n) ==
    Len(history'[tf].imbalance) > Len(history[tf].imbalance) =>
        /\ IsMeanOf(Last(history'[tf].imbalance), LastN(history'["1m"].imbalance, n))
        /\ IsMeanOf(Last(history'[tf].bid_volume), LastN(history'["1m"].bid_volume, n))
        /\ IsMeanOf(Last(history'[tf].ask_volume), LastN(history'["1m"].ask_volume, n))

\* C10: every entry appended to the 5m history is the arithmetic mean of the
\* last 5 entries of the 1m history, every entry appended to the 15m history
\* the mean of the last 15, and the mean of the entries present when the 1m
\* history holds fewer.
C10_HigherTimeframeMean ==
    [][ProcessStep => AppendsMeanOfLast("5m", 5) /\ AppendsMeanOfLast("15m", 15)]_vars

----------------------------------------------------------------------------
(* Gaps in the feed *)

\* C11: gaps are not zero-filled: a processing step appends at most one entry
\* to the 1m history, and only when it closes a minute in which snapshots were
\* buffered, however many minutes passed since; so the 1m history never holds
\* more entries than there are distinct minutes in which a snapshot arrived.
C11_NoZeroFill ==
    [][ProcessStep =>
          /\ \/ history'["1m"].imbalance = history["1m"].imbalance
             \/ /\ AppendedOne(history["1m"].imbalance, history'["1m"].imbalance)
                /\ current_minute_data.imbalances # <<>>
                /\ current_minute_data.minute # current_time'.minute
          /\ Len(history'["1m"].imbalance) <= Cardinality(minutes')
          /\ Len(history'["1m"].bid_volume) = Len(history'["1m"].imbalance)
          /\ Len(history'["1m"].ask_volume) = Len(history'["1m"].imbalance)]_vars

\* the second delta arrived in minute 20, at least four minutes after the
\* first: the rollover appended one entry
C11_Witness ==
    /\ pc = "processed"
    /\ delivered = 2
    /\ current_time.minute = 20
    /\ Cardinality(minutes) = 2
    /\ Len(history["1m"].imbalance) = 1

----------------------------------------------------------------------------
(* Trend of a timeframe *)

\* the trend the last up-to-10 entries of a list show, in the letters of
\* trend_ascii: newest against oldest of them, margin 5
TrendOf(s) ==
    LET w == LastN(s, 10)
        diff == RSub(w[Len(w)], w[1])
    IN  IF RLess(RInt(5), diff) THEN "UP"
        ELSE IF RLess(diff, RInt(-5)) THEN "DOWN"
        ELSE "-"

\* C12: for every timeframe whose history holds at least 2 entries,
\* analyze_timeframe (default arguments) returns the trend of the last
\* up-to-10 entries: up when the newest exceeds the oldest by more than 5,
\* down when it is lower by more than 5, neutral otherwise.
C12_TrendClassification ==
    \A tf \in Timeframes :
        Len(history[tf].imbalance) >= 2 =>
            LET a == analyze_timeframe(history, tf, default_min_history) IN
            /\ ~a.raised
            /\ a.value # None
            /\ a.value.trend_ascii = TrendOf(history[tf].imbalance)

\* C13: for a timeframe whose history holds fewer than 2 entries,
\* analyze_timeframe (default arguments) returns None, the "no data" result,
\* and no exception is raised and handled on the way.
C13_NoDataSentinel ==
    \A tf \in Timeframes :
        Len(history[tf].imbalance) < 2 =>
            analyze_timeframe(history, tf, default_min_history)
                = [value |-> None, raised |-> FALSE]

----------------------------------------------------------------------------
(* Signals *)

\* A second connection is never made: once a websocket is there the loop of
\* connect_to_binance is not left, whatever recv raises.  So no run reaches
\* the case of C14, a reconnect after the connection was dropped.
OnlyOneConnection == websocket.id <= 1

InList(x, s) == \E i \in 1..Len(s) : s[i] = x

\* C15: the rules of generate_signals fail soft one by one: while the 5m or
\* the 15m history is empty, the evaluation still returns the imbalance
\* signal when the imbalance is beyond the threshold and the large-order
\* signals when large orders are detected.
C15_RulesFailSoft ==
    (pc = "processed" /\ (history["5m"].imbalance = <<>> \/ history["15m"].imbalance = <<>>))
    => LET r == generate_signals(history, current_metrics, current_orderbook)
           large == detect_large_orders(current_orderbook)
       IN  /\ ~r.raised
           /\ RLess(RInt(40), RAbs(current_metrics.imbalance)) =>
                  (InList("imbalance: buy", r.signals) \/ InList("imbalance: sell", r.signals))
           /\ large.bids # <<>> => InList("large orders: bids", r.signals)
           /\ large.asks # <<>> => InList("large orders: asks", r.signals)

TrendIs(tf, t) == Len(history[tf].imbalance) >= 2 /\ TrendOf(history[tf].imbalance) = t

\* C17: generate_signals returns normally, with the aligned-uptrend signal
\* exactly when the trends of the three timeframes are all up and the
\* aligned-downtrend signal exactly when they are all down.
C17_TrendAlignment ==
    pc = "processed"
    => LET r == generate_signals(history, current_metrics, current_orderbook) IN
       /\ ~r.raised
       /\ InList("trend: up on all timeframes", r.signals)
             <=> \A tf \in Timeframes : TrendIs(tf, "UP")
       /\ InList("trend: down on all timeframes", r.signals)
             <=> \A tf \in Timeframes : TrendIs(tf, "DOWN")

\* C18: the velocity is the last entry of the 1m imbalance history minus the
\* one before it; generate_signals returns the rising-speed signal exactly
\* when the history holds two entries and the velocity is above 15, the
\* falling-speed signal exactly when it is below -15.
C18_VelocitySignal ==
    pc = "processed"
    => LET r == generate_signals(history, current_metrics, current_orderbook)
           h == history["1m"].imbalance
           n == Len(h)
       IN  /\ ~r.raised
           /\ n >= 2 => calculate_imbalance_speed(history, "1m") = RSub(h[n], h[n - 1])
           /\ InList("speed: rising", r.signals)
                 <=> (n >= 2 /\ RLess(RInt(15), RSub(h[n], h[n - 1])))
           /\ InList("speed: falling", r.signals)
                 <=> (n >= 2 /\ RLess(RSub(h[n], h[n - 1]), RInt(-15)))

\* the sum of the quantities of the levels at the given prices
RECURSIVE SumQty(_, _)
SumQty(levels, prices) ==
    IF prices = {} THEN 0
    ELSE LET p == CHOOSE x \in prices : TRUE IN levels[p] + SumQty(levels, prices \ {p})

C20_Accumulation ==
    LET imb == history["1m"].imbalance
        vol == history["1m"].bid_volume
        n == Len(imb)
    IN  (detect_accumulation(history) # None)
        <=> /\ n >= 5
            /\ \A i, j \in (n - 4)..n : RLess(RSub(imb[i], imb[j]), RInt(10))
            /\ RLess(RMul(Rat(12, 10), vol[n - 4]), vol[n])
            /\ \E S \in SUBSET ((n - 4)..n) :
                  Cardinality(S) = 3 /\ \A i \in S : RLess(Zero, imb[i])

\* six 1m entries; of the last five exactly three have a positive imbalance,
\* and the pattern is reported
C20_Witness ==
    /\ pc = "processed"
    /\ Len(history["1m"].imbalance) = 6
    /\ Cardinality({i \in 2..6 : RLess(Zero, history["1m"].imbalance[i])}) = 3
    /\ detect_accumulation(history) = AccumulationFound


----------------------------------------------------------------------------
(* C21: division guards *)

\* C21: every ratio is guarded against a zero denominator: the imbalance of
\* the current metrics is 0 when bid_volume + ask_volume = 0, and for every
\* timeframe whose history is not empty and whose latest ask_volume is 0,
\* analyze_timeframe (called with its default min_history) fails on no path
\* and returns an analysis whose volume_ratio is 1.
C21_DivisionGuard ==
    /\ RAdd(current_metrics.bid_volume, current_metrics.ask_volume) = Zero
          => current_metrics.imbalance = Zero
    /\ \A tf \in Timeframes :
          (history[tf].ask_volume # <<>> /\ Last(history[tf].ask_volume) = Zero)
             => LET r == analyze_timeframe(history, tf, default_min_history)
                IN  /\ ~r.raised
                    /\ r.value # None
                    /\ r.value.volume_ratio = RInt(1)


----------------------------------------------------------------------------
(* C22: nothing inside the core is fatal *)

\* the delta in hand makes the try block of _update_orderbook raise
BadDelta == message # NoMessage /\ _update_orderbook_raised(current_orderbook, message)

\* C22: whatever the delta contains, process_depth_message returns normally
\* (the loop body reaches its end, never the except branch that sleeps), and
\* from the end of the loop body the loop goes back to recv for the next delta
\* with the connection untouched.
C22_NothingFatal ==
    [][/\ pc = "process" => pc' = "processed"
       /\ pc = "processed" => (pc' = "recv" /\ websocket' = websocket)]_vars

\* a second delta has been processed to the end although it is missing a key
\* or holds an unparseable entry
C22_Witness ==
    /\ pc = "processed"
    /\ delivered = MaxDeltas
    /\ BadDelta


----------------------------------------------------------------------------
(* C23: the stages of the pipeline *)

\* the stage is called exactly once for a delta
CalledOnce(stage) == Cardinality({i \in DOMAIN pipeline : pipeline[i] = stage}) = 1

\* position of a stage that is called once
CallOf(stage) == CHOOSE i \in DOMAIN pipeline : pipeline[i] = stage

\* C23: when a delta has been processed, each of the four stages has run once,
\* in the order apply (_update_orderbook) -> compute metrics
\* (_calculate_metrics) -> aggregate into histories (_update_history) ->
\* evaluate signals (generate_signals), before the next delta is accepted.
C23_StagesInOrder ==
    pc = "processed" =>
        /\ message # NoMessage
        /\ \A stage \in {"_update_orderbook", "_calculate_metrics",
                         "_update_history", "generate_signals"} : CalledOnce(stage)
        /\ CallOf("_update_orderbook") < CallOf("_calculate_metrics")
        /\ CallOf("_calculate_metrics") < CallOf("_update_history")
        /\ CallOf("_update_history") < CallOf("generate_signals")


----------------------------------------------------------------------------
(* C24: reconnection *)

\* the monitor is in the receive loop on a connection that has been lost
ReceivingOnDeadConnection == pc \in {"recv", "sleep1"} /\ ~websocket.open

\* C24: whenever the connection is lost while the monitor is receiving, the
\* receive loop is eventually left and run() makes a new connection attempt.
C24_Reconnects == ReceivingOnDeadConnection ~> pc = "connect"


----------------------------------------------------------------------------
(* C25: one wall-clock minute per 1m entry *)

\* the step adds the new snapshot to the snapshots already buffered, which
\* will be averaged together into one 1m entry
JoinsBuffer ==
    /\ pc = "process"
    /\ current_minute_data.imbalances # <<>>
    /\ Len(current_minute_data'.imbalances) = Len(current_minute_data.imbalances) + 1

\* C25: the snapshots averaged into one 1m entry all arrived in the same
\* wall-clock minute: a snapshot joins the buffered ones only if it has the
\* hour and the minute-of-hour of the snapshot before it, also across a gap
\* of 60 minutes.
C25_OneWallClockMinute ==
    [][JoinsBuffer => /\ current_time'.hour = current_time.hour
                      /\ current_time'.minute = current_time.minute]_vars


----------------------------------------------------------------------------
(* C26: the shape of the histories *)

\* number of entries of a timeframe
Entries_of(hist, tf) == Len(hist[tf].imbalance)

\* the three lists of every timeframe have one length, and a longer
\* timeframe never has more entries than a shorter one
HistoryShape(hist) ==
    /\ \A tf \in Timeframes :
          /\ Len(hist[tf].bid_volume) = Len(hist[tf].imbalance)
          /\ Len(hist[tf].ask_volume) = Len(hist[tf].imbalance)
    /\ Entries_of(hist, "15m") <= Entries_of(hist, "5m")
    /\ Entries_of(hist, "5m") <= Entries_of(hist, "1m")

\* C26: after every step len(15m) <= len(5m) <= len(1m) and the imbalance,
\* bid_volume and ask_volume lists of each timeframe have the same length;
\* a step that appends a 15m entry also appends a 5m entry, and a step that
\* appends a 5m entry also appends a 1m entry.
C26_HistoryShape ==
    [][/\ HistoryShape(history')
       /\ Entries_of(history', "15m") > Entries_of(history, "15m")
             => Entries_of(history', "5m") > Entries_of(history, "5m")
       /\ Entries_of(history', "5m") > Entries_of(history, "5m")
             => Entries_of(history', "1m") > Entries_of(history, "1m")]_vars

\* a 15m entry, a second 5m entry five minutes later and a 1m entry in
\* between have been appended
C26_Witness ==
    /\ Entries_of(history, "15m") = 1
    /\ Entries_of(history, "5m") = 2
    /\ Entries_of(history, "1m") = 3


----------------------------------------------------------------------------
(* C27: how many levels detect_large_orders can report *)

\* the levels detect_large_orders considers: the 20 highest bids and the 20
\* lowest asks
Considered(book) ==
    Cardinality(TopBids(book.bids, LargeDepth)) + Cardinality(TopAsks(book.asks, LargeDepth))

\* the levels it reports, both sides together
Reported(book) ==
    Len(detect_large_orders(book).bids) + Len(detect_large_orders(book).asks)

\* C27: detect_large_orders reports strictly fewer than n/5 of the n levels
\* it considers, and none at all when it considers 5 levels or fewer.
C27_FewerThanAFifth ==
    LET n == Considered(current_orderbook)
        k == Reported(current_orderbook)
    IN  /\ n > 0 => 5 * k < n
        /\ n <= 5 => k = 0

====
